---- MODULE Spec2Model ----
(***************************************************************************)
(* FalconVault: the vault session manager (src/hooks/useVault.ts), the     *)
(* handlers of App.tsx, WalletManager.tsx, Settings.tsx and of the API     *)
(* console (src/unnamed/part_001) that drive it, and the persisted store   *)
(* kept in localStorage under STORAGE_KEY.                                 *)
(*                                                                         *)
(* Scheduling.  The application is a single event loop.  A handler runs    *)
(* until it suspends.  The SHA-256 digests of hashPassword and             *)
(* generateIntegrityHash are taken together with the handler turn that     *)
(* requests them, so a call of persist is one step with the state update   *)
(* that precedes it.  Handlers suspend at encryptData (PBKDF2 + AES-GCM)   *)
(* and at FileReader.readAsText; a suspended handler keeps the props and   *)
(* state of the render it was created in (its closure), recorded in the    *)
(* cap field of its task.  React state updates issued in one turn are      *)
(* applied together.                                                       *)
(*                                                                         *)
(* The chain operations of src/services/cryptoService.ts (fetchWithRetry,  *)
(* fetchNonce, fetchBalance) run over endpoints that resolve, reject or    *)
(* never answer a call; encryptData and decryptData are followed through   *)
(* the text encoding, the key derivation and the cipher.  Each has its own *)
(* specification (SpecRpc, SpecChain, SpecCrypto), over a session that     *)
(* does not move.                                                          *)
(*                                                                         *)
(* SpecSettings follows the attribute editor, SpecManager the selection    *)
(* and the key reveal of the wallet manager, and SpecTimer the inactivity  *)
(* timer of useAutoLock minute by minute; SpecTimerFair adds that time     *)
(* passes, that a due timeout runs and that a pending promise settles.     *)
(***************************************************************************)
EXTENDS Integers, Sequences, FiniteSets, TLC

VARIABLES
    isLocked,        \* useVault state
    hasVault,        \* useVault state
    wallets,         \* useVault state: working wallet list
    settings,        \* useVault state: working settings
    masterPassword,  \* useVault state: plaintext password, empty when none
    store,           \* localStorage[STORAGE_KEY]: <<>> when absent, <<unit>> otherwise
    tasks,           \* suspended handlers, each with the closure it captured
    nextId,          \* number of crypto.randomUUID() values drawn so far
    ret,             \* the last completed handler and what it returned; for
                     \* lockVault, count is the number of calls made in a row
    createdWith,     \* history: the password given to the createVault that made the store
    added,           \* history: ids handed to addWallet / merged, not removed since
    rpc,             \* the chain operation in progress, with the calls it has made
    crypt,           \* the last encryptData / decryptData pair: inputs, packet, output
    timer,           \* useAutoLock: the timeout of timerRef, in minutes left, and
                     \* the minutes gone by since the last user activity
    manager          \* WalletManager state: selectedWalletId, revealedKey and the
                     \* reveals whose decryptData is pending

vars == <<isLocked, hasVault, wallets, settings, masterPassword, store, tasks,
          nextId, ret, createdWith, added, rpc, crypt, timer, manager>>

vaultVars == <<isLocked, hasVault, wallets, settings, masterPassword, store, tasks,
               nextId, ret, createdWith, added>>

serviceVars == <<rpc, crypt, timer, manager>>

----------------------------------------------------------------------------
(* Bounds *)

MaxIds == 2        \* randomUUID() draws
MaxTasks == 1      \* handlers suspended at the same time
MaxLines == 2      \* lines of one batch CSV
MaxAttrs == 2      \* length of settings.attributeDefinitions
MaxRandom == 2     \* distinct values Math.random() takes
MaxPlainLen == 2   \* UTF-16 code units of a plaintext given to encryptData

(* Program constants *)

MinPasswordLength == 6

----------------------------------------------------------------------------
(* Values *)

\* Strings that are hashed or encrypted are sequences of UTF-16 code units:
\* "HI" and "LO" are a high and a low surrogate, "BOM" is U+FEFF, any other
\* unit is a character of the Basic Multilingual Plane.
Secret == <<"s", "e", "c", "r", "e", "t">>
Wrong == <<"w", "r", "o", "n", "g">>
Hunter22 == <<"h", "u", "n", "t", "e", "r", "2", "2">>

\* what is typed into the lock screen: one password of exactly
\* MinPasswordLength characters, one shorter
Passwords == {Secret, Wrong}
K1 == <<"k", "1">>
K2 == <<"k", "2">>
NotAKey == <<"z">>
ValidKeys == {K1, K2}
NoMetadata == [k \in {} |-> ""]

\* {...a, ...b}
Spread(a, b) ==
    [k \in (DOMAIN a) \cup (DOMAIN b) |-> IF k \in DOMAIN b THEN b[k] ELSE a[k]]

Range(s) == {s[i] : i \in DOMAIN s}

DEFAULT_SETTINGS ==
    [autoLockMinutes |-> 15,
     enableLogging |-> TRUE,
     attributeDefinitions |-> <<[key |-> "notes", label |-> "Notes"]>>]

\* SHA-256 as a collision-free digest of its input
Sha256(input) == <<"sha256", input>>

generateIntegrityHash(data) == Sha256(data)

\* new TextEncoder().encode(s): the string is first made well-formed (a
\* surrogate pair is one code point, a surrogate on its own becomes U+FFFD),
\* then written in UTF-8; the bytes are kept as one token per code point
RECURSIVE TextEncode_splitsPairs(_)
TextEncode_splitsPairs(s) ==
    IF s = <<>> THEN <<>>
    ELSE IF Head(s) \in {"HI", "LO"}
         THEN <<"FFFD">> \o TextEncode_splitsPairs(Tail(s))
         ELSE <<Head(s)>> \o TextEncode_splitsPairs(Tail(s))

RECURSIVE TextEncode(_)
TextEncode(s) ==
    IF s = <<>> THEN <<>>
    ELSE IF Head(s) = "HI" /\ Len(s) >= 2 /\ s[2] = "LO"
         THEN <<"SUPP">> \o TextEncode(Tail(Tail(s)))
         ELSE IF Head(s) \in {"HI", "LO"}
              THEN <<"FFFD">> \o TextEncode(Tail(s))
              ELSE <<Head(s)>> \o TextEncode(Tail(s))

RECURSIVE Utf16(_)
Utf16(points) ==
    IF points = <<>> THEN <<>>
    ELSE IF Head(points) = "SUPP"
         THEN <<"HI", "LO">> \o Utf16(Tail(points))
         ELSE <<Head(points)>> \o Utf16(Tail(points))

\* new TextDecoder().decode(bytes): a leading byte order mark is dropped
TextDecode(bytes) ==
    IF bytes # <<>> /\ Head(bytes) = "BOM" THEN Utf16(Tail(bytes)) ELSE Utf16(bytes)

\* crypto.getRandomValues for the salt and for the iv
Salts == {"salt1", "salt2"}
Ivs == {"iv1", "iv2"}

\* SHA-256 of new TextEncoder().encode(password)
hashPassword(password) == Sha256(TextEncode(password))

\* PBKDF2 of enc.encode(password) with the salt
getKey(password, salt) == <<"pbkdf2", TextEncode(password), salt>>

\* AES-GCM: the ciphertext is the body and the tag that binds it to the key
\* and the iv it was sealed with
AesGcm(key, iv, bytes) == [body |-> bytes, tag |-> <<key, iv, bytes>>]

\* crypto.subtle.decrypt resolves
AesGcmOpens_keyOnly(ciphertext, key, iv) == ciphertext.tag[1] = key

AesGcmOpens(ciphertext, key, iv) == ciphertext.tag = <<key, iv, ciphertext.body>>

\* an envelope that atob or JSON.parse rejects
MalformedPacket == [garbage |-> TRUE]

\* the packet {salt, iv, data}; btoa(JSON.stringify(packet)) and
\* JSON.parse(atob(...)) carry its byte arrays over unchanged
encryptData(data, password, salt, iv) ==
    [salt |-> salt, iv |-> iv,
     data |-> AesGcm(getKey(password, salt), iv, TextEncode(data))]

DecryptionFailed == <<"Decryption failed. Password incorrect or data corrupted.">>

\* whatever is thrown inside the try becomes the one error of the catch
decryptData(packet, password) ==
    IF "garbage" \in DOMAIN packet
    THEN DecryptionFailed
    ELSE IF AesGcmOpens(packet.data, getKey(password, packet.salt), packet.iv)
         THEN TextDecode(packet.data.body)
         ELSE DecryptionFailed

\* encryptData as the vault's handlers call it, with the first salt and iv
encryptKey(privateKey, password) == encryptData(privateKey, password, "salt1", "iv1")

createWalletFromKey(privateKey) ==
    [address |-> IF privateKey \in ValidKeys THEN <<"addr", privateKey>> ELSE <<>>,
     valid |-> privateKey \in ValidKeys]

----------------------------------------------------------------------------
(* cryptoService.ts: the RPC endpoints and the retry wrapper *)

\* NETWORKS: how many RPC urls each network lists; an endpoint is its position
NETWORKS == [mainnet |-> 4, zksync |-> 2, sepolia |-> 2]

TOKEN_ADDRESSES == [mainnet |-> {"usdt", "usdc"}, zksync |-> {"usdc"}, sepolia |-> {}]

\* what a call to an endpoint does: it resolves, it rejects, or it never answers
Outcomes == {"ok", "error", "hang"}

\* key: the networkKey the operation was given; network: the entry of
\* NETWORKS whose urls it goes through
NoRpc ==
    [op |-> "idle", key |-> "mainnet", network |-> "mainnet", i |-> 0, pc |-> "done",
     wait |-> {}, log |-> <<>>, lastError |-> <<>>, out |-> <<>>]

\* network keys handed to the operations: two configured ones, one of them
\* in capitals, and one that NETWORKS does not list
ChainKeys == {"SEPOLIA", "zksync", "goerli"}

\* networkKey.toLowerCase()
ToLowerCase(networkKey) == IF networkKey = "SEPOLIA" THEN "sepolia" ELSE networkKey

\* NETWORKS[networkKey.toLowerCase()] is defined
Configured(networkKey) == ToLowerCase(networkKey) \in DOMAIN NETWORKS

UnsupportedNetwork(networkKey) == <<"Unsupported network key", networkKey>>

\* the amount endpoint i answers (never zero)
Balance(i) == i

formatValue(val, decimals) == IF val = 0 THEN <<"0.00">> ELSE <<val, decimals>>

Called(r, call, outcome) == [url |-> r.i, call |-> call, outcome |-> outcome]

\* catch (e) { lastError = e }: on to the next url, and after the last one
\* throw lastError; fetchBalance turns the throw into 'Error'
retryNext_firstError(r, e) ==
    LET err == IF r.lastError = <<>> THEN e ELSE r.lastError
    IN IF r.i < NETWORKS[r.network]
       THEN [r EXCEPT !.i = @ + 1, !.pc = "getNetwork", !.wait = {}, !.lastError = err]
       ELSE [r EXCEPT !.pc = "done", !.wait = {}, !.lastError = err,
                      !.out = IF r.op = "fetchBalance" THEN <<"Error">> ELSE <<"throw", err>>]

retryNext(r, e) ==
    IF r.i < NETWORKS[r.network]
    THEN [r EXCEPT !.i = @ + 1, !.pc = "getNetwork", !.wait = {}, !.lastError = e]
    ELSE [r EXCEPT !.pc = "done", !.wait = {}, !.lastError = e,
                   !.out = IF r.op = "fetchBalance" THEN <<"Error">> ELSE <<"throw", e>>]

----------------------------------------------------------------------------
(* The persisted store *)

persist_staleChecksum(newWallets, newSettings, passHash) ==
    [wallets |-> newWallets,
     masterHash |-> passHash,
     settings |-> newSettings,
     checksum |-> generateIntegrityHash([wallets |-> <<>>, settings |-> newSettings])]

persist(newWallets, newSettings, passHash) ==
    [wallets |-> newWallets,
     masterHash |-> passHash,
     settings |-> newSettings,
     checksum |-> generateIntegrityHash([wallets |-> newWallets, settings |-> newSettings])]

StoreFields == {"wallets", "masterHash", "settings", "checksum"}

\* JSON.parse(stored) does not throw
Parsable(unit) == "garbage" \notin DOMAIN unit

Truthy(checksum) == checksum # <<>>

NoReturn ==
    [op |-> "none", ok |-> FALSE, pw |-> <<>>, warned |-> FALSE, count |-> 0,
     label |-> "", error |-> <<>>, decrypted |-> FALSE, signature |-> <<>>, body |-> <<>>,
     address |-> <<>>]

NoCrypt == [pc |-> "idle", plain |-> <<>>, password |-> <<>>, packet |-> <<>>,
            altered |-> "none", with |-> <<>>, out |-> <<>>]

\* timerRef before the first effect has run
NoTimer == [armed |-> FALSE, left |-> 0, idle |-> 0, fired |-> FALSE]

\* selectedWalletId null
NoSelection == 0

\* the wallet manager is not mounted, or has just been
NoManager == [selectedWalletId |-> NoSelection, revealedKey |-> <<>>, pending |-> {}]

Closure == [wallets |-> wallets, settings |-> settings, password |-> masterPassword]

ids(ws) == {ws[i].id : i \in DOMAIN ws}

Init ==
    /\ isLocked = TRUE
    /\ hasVault = FALSE
    /\ wallets = <<>>
    /\ settings = DEFAULT_SETTINGS
    /\ masterPassword = <<>>
    /\ store = <<>>
    /\ tasks = {}
    /\ nextId = 0
    /\ ret = NoReturn
    /\ createdWith = <<>>
    /\ added = {}
    /\ rpc = NoRpc
    /\ crypt = NoCrypt
    /\ timer = NoTimer
    /\ manager = NoManager

----------------------------------------------------------------------------
(* useVault *)

\* createVault: state set after the password digest, then the first persist
createVault(password) ==
    /\ masterPassword' = password
    /\ isLocked' = FALSE
    /\ hasVault' = TRUE
    /\ wallets' = <<>>
    /\ store' = <<persist(<<>>, settings, hashPassword(password))>>
    /\ createdWith' = password
    /\ added' = {}
    /\ ret' = NoReturn
    /\ UNCHANGED <<settings, tasks, nextId>>

\* parsed.checksum && parsed.checksum !== calculatedChecksum
integrityWarning_never(parsed) == FALSE

integrityWarning(parsed) ==
    /\ Truthy(parsed.checksum)
    /\ parsed.checksum #
         generateIntegrityHash([wallets |-> parsed.wallets, settings |-> parsed.settings])

unlockFails(password) ==
    /\ ret' = [NoReturn EXCEPT !.op = "unlockVault", !.pw = password]
    /\ UNCHANGED <<isLocked, hasVault, wallets, settings, masterPassword, store,
                   tasks, nextId, createdWith, added>>

unlockSucceeds(parsed, password) ==
    /\ wallets' = parsed.wallets
    /\ settings' = Spread(DEFAULT_SETTINGS, parsed.settings)
    /\ masterPassword' = password
    /\ isLocked' = FALSE
    /\ ret' = [NoReturn EXCEPT !.op = "unlockVault", !.ok = TRUE, !.pw = password,
                               !.warned = integrityWarning(parsed)]
    /\ UNCHANGED <<hasVault, store, tasks, nextId, createdWith, added>>

unlockVault_noHashCheck(password) ==
    IF store = <<>> \/ ~Parsable(store[1])
    THEN unlockFails(password)
    ELSE unlockSucceeds(store[1], password)

unlockVault_loadsBeforeCheck(password) ==
    IF store = <<>> \/ ~Parsable(store[1])
    THEN unlockFails(password)
    ELSE IF store[1].masterHash = hashPassword(password)
         THEN unlockSucceeds(store[1], password)
         ELSE /\ wallets' = store[1].wallets
              /\ ret' = [NoReturn EXCEPT !.op = "unlockVault", !.pw = password]
              /\ UNCHANGED <<isLocked, hasVault, settings, masterPassword, store,
                             tasks, nextId, createdWith, added>>

unlockVault(password) ==
    IF store = <<>>
    THEN unlockFails(password)                       \* if (!stored) return false
    ELSE IF ~Parsable(store[1])
         THEN unlockFails(password)                  \* catch: "Vault corruption"
         ELSE IF store[1].masterHash = hashPassword(password)
              THEN unlockSucceeds(store[1], password)
              ELSE unlockFails(password)

\* the calls of lockVault made in a row, this one included
lockCalls == IF ret.op = "lockVault" THEN 2 ELSE 1

lockVault_keepsPassword ==
    /\ isLocked' = TRUE
    /\ ret' = [NoReturn EXCEPT !.op = "lockVault", !.count = lockCalls]
    /\ UNCHANGED <<masterPassword, hasVault, wallets, settings, store, tasks, nextId,
                   createdWith, added>>

lockVault_clearsWallets ==
    /\ masterPassword' = <<>>
    /\ isLocked' = TRUE
    /\ wallets' = <<>>
    /\ ret' = [NoReturn EXCEPT !.op = "lockVault", !.count = lockCalls]
    /\ UNCHANGED <<hasVault, settings, store, tasks, nextId, createdWith, added>>

lockVault ==
    /\ masterPassword' = <<>>
    /\ isLocked' = TRUE
    /\ ret' = [NoReturn EXCEPT !.op = "lockVault", !.count = lockCalls]
    /\ UNCHANGED <<hasVault, wallets, settings, store, tasks, nextId, createdWith, added>>

\* The mutators are closures of one render: cap is what that render saw.
addWallet_liveHash(cap, wallet) ==
    /\ wallets' = Append(cap.wallets, wallet)
    /\ store' = <<persist(Append(cap.wallets, wallet), cap.settings,
                          hashPassword(masterPassword))>>
    /\ added' = added \cup {wallet.id}

addWallet(cap, wallet) ==
    /\ wallets' = Append(cap.wallets, wallet)
    /\ store' = <<persist(Append(cap.wallets, wallet), cap.settings,
                          hashPassword(cap.password))>>
    /\ added' = added \cup {wallet.id}

removeWallet(cap, id) ==
    LET newWallets == SelectSeq(cap.wallets, LAMBDA w : w.id # id)
    IN /\ wallets' = newWallets
       /\ store' = <<persist(newWallets, cap.settings, hashPassword(cap.password))>>
       /\ added' = added \ {id}
       /\ ret' = NoReturn
       /\ UNCHANGED <<isLocked, hasVault, settings, masterPassword, tasks, nextId,
                      createdWith>>

updateWalletMetadata(cap, id, metadata) ==
    LET newWallets ==
          [i \in DOMAIN cap.wallets |->
             IF cap.wallets[i].id = id
             THEN [cap.wallets[i] EXCEPT !.metadata = Spread(@, metadata)]
             ELSE cap.wallets[i]]
    IN /\ wallets' = newWallets
       /\ store' = <<persist(newWallets, cap.settings, hashPassword(cap.password))>>
       /\ ret' = NoReturn
       /\ UNCHANGED <<isLocked, hasVault, settings, masterPassword, tasks, nextId,
                      createdWith, added>>

updateSettings(cap, newSettings) ==
    LET updated == Spread(cap.settings, newSettings)
    IN /\ settings' = updated
       /\ store' = <<persist(cap.wallets, updated, hashPassword(cap.password))>>
       /\ ret' = NoReturn
       /\ UNCHANGED <<isLocked, hasVault, wallets, masterPassword, tasks, nextId,
                      createdWith, added>>

\* backup.wallets.filter(w => !currentIds.has(w.id))
toAdd(current, backupWallets) ==
    SelectSeq(backupWallets, LAMBDA w : w.id \notin ids(current))

importVaultData_reencrypts(cap, json, currentPassword) ==
    IF ~json.valid
    THEN /\ ret' = [NoReturn EXCEPT !.op = "importVaultData"]
         /\ UNCHANGED <<wallets, store, added>>
    ELSE LET merged == toAdd(cap.wallets, json.wallets)
             sealed == [i \in DOMAIN merged |->
                          [merged[i] EXCEPT !.encryptedPrivateKey.data =
                              AesGcm(getKey(currentPassword, merged[i].encryptedPrivateKey.salt),
                                     merged[i].encryptedPrivateKey.iv, @.body)]]
             newWallets == cap.wallets \o sealed
         IN /\ wallets' = newWallets
            /\ store' = <<persist(newWallets, cap.settings, hashPassword(currentPassword))>>
            /\ added' = added \cup ids(merged)
            /\ ret' = [NoReturn EXCEPT !.op = "importVaultData", !.ok = TRUE,
                                       !.count = Len(merged)]

importVaultData(cap, json, currentPassword) ==
    IF ~json.valid
    THEN \* JSON.parse throws, or backup.wallets is not an array
         /\ ret' = [NoReturn EXCEPT !.op = "importVaultData"]
         /\ UNCHANGED <<wallets, store, added>>
    ELSE LET merged == toAdd(cap.wallets, json.wallets)
             newWallets == cap.wallets \o merged
         IN /\ wallets' = newWallets
            /\ store' = <<persist(newWallets, cap.settings, hashPassword(currentPassword))>>
            /\ added' = added \cup ids(merged)
            /\ ret' = [NoReturn EXCEPT !.op = "importVaultData", !.ok = TRUE,
                                       !.count = Len(merged)]

----------------------------------------------------------------------------
(* Inputs *)

\* String.prototype.trim on the names that are typed
Trim(name) == IF name = " A " THEN "A" ELSE name

\* the CSV pasted into the batch form: label,key lines, A first, then B, ...
CsvLine(i) == [l |-> IF i % 2 = 1 THEN "A" ELSE "B", k |-> K1]

\* what the user types into the single import form
TypedImports ==
    {[name |-> " A ", key |-> K1],
     [name |-> "", key |-> K1],
     [name |-> "B", key |-> NotAKey]}

\* vault_importPrivateKey payloads
ApiImports ==
    {[label |-> "A", privateKey |-> K1],
     [label |-> "B", privateKey |-> NotAKey]}

\* a CSV that names the same label on two lines
DuplicateBatch == <<CsvLine(1), CsvLine(1)>>

Batches == {[i \in 1..n |-> CsvLine(i)] : n \in 1..MaxLines} \cup {DuplicateBatch}

\* a backup exported by another vault, whose master password was Hunter22
ForeignBackup ==
    [valid |-> TRUE,
     wallets |-> <<[id |-> 0 - 1,
                    name |-> "A",
                    address |-> createWalletFromKey(K1).address,
                    encryptedPrivateKey |-> encryptKey(K1, Hunter22),
                    metadata |-> NoMetadata]>>]

\* a file that is not JSON, or has no wallets array
GarbageFile == [valid |-> FALSE, wallets |-> <<>>]

\* a backup file whose wallets array lists one id twice
RepeatedIdBackup ==
    [valid |-> TRUE,
     wallets |-> <<ForeignBackup.wallets[1],
                   [ForeignBackup.wallets[1] EXCEPT !.name = "B"]>>]

Files == {ForeignBackup, RepeatedIdBackup, GarbageFile}

NoLines == <<>>

\* what the user saves in the attribute editor, for the first wallet of the registry
EditedMetadata == [notes |-> "n"]

Task(kind, lines, json) == [kind |-> kind, lines |-> lines, json |-> json, cap |-> Closure]

----------------------------------------------------------------------------
(* App.tsx *)

handleSetup_noLengthCheck(inputPassword) ==
    /\ isLocked /\ ~hasVault
    /\ createVault(inputPassword)

handleSetup(inputPassword) ==
    /\ isLocked /\ ~hasVault
    /\ IF Len(inputPassword) < MinPasswordLength
       THEN /\ ret' = [NoReturn EXCEPT !.op = "handleSetup", !.pw = inputPassword]
            /\ UNCHANGED <<isLocked, hasVault, wallets, settings, masterPassword, store,
                           tasks, nextId, createdWith, added>>
       ELSE createVault(inputPassword)

handleUnlock(inputPassword) ==
    /\ isLocked /\ hasVault
    /\ unlockVault(inputPassword)

handleManualLock ==
    /\ ~isLocked
    /\ lockVault

\* lockVault called by a holder of the hook while the session is already locked
lockVaultAgain ==
    /\ isLocked /\ hasVault
    /\ lockVault

\* localStorage.removeItem, then window.location.reload()
clearVault ==
    /\ hasVault
    /\ store' = <<>>
    /\ isLocked' = TRUE
    /\ hasVault' = FALSE
    /\ wallets' = <<>>
    /\ settings' = DEFAULT_SETTINGS
    /\ masterPassword' = <<>>
    /\ tasks' = {}
    /\ ret' = NoReturn
    /\ createdWith' = <<>>
    /\ added' = {}
    /\ UNCHANGED <<nextId>>

\* the page is loaded again: useState initial values, then the mount effect
Mount ==
    /\ isLocked' = TRUE
    /\ hasVault' = (store # <<>>)
    /\ wallets' = <<>>
    /\ settings' = DEFAULT_SETTINGS
    /\ masterPassword' = <<>>
    /\ tasks' = {}
    /\ ret' = NoReturn
    /\ UNCHANGED <<store, nextId, createdWith, added>>

----------------------------------------------------------------------------
(* useAutoLock.ts *)

autoLockTimer ==
    /\ ~isLocked
    /\ settings.autoLockMinutes > 0
    /\ lockVault

\* The timer followed minute by minute.  timeoutMinutes * 60 * 1000 ms
TimeoutTicks(timeoutMinutes) == timeoutMinutes

\* resetTimer: the pending timeout is cleared and, if (!isLocked &&
\* timeoutMinutes > 0), a new one is set
resetTimer_noZeroCheck(locked, timeoutMinutes, idle) ==
    [armed |-> ~locked, left |-> TimeoutTicks(timeoutMinutes), idle |-> idle,
     fired |-> FALSE]

resetTimer(locked, timeoutMinutes, idle) ==
    IF ~locked /\ timeoutMinutes > 0
    THEN [armed |-> TRUE, left |-> TimeoutTicks(timeoutMinutes), idle |-> idle,
          fired |-> FALSE]
    ELSE [armed |-> FALSE, left |-> 0, idle |-> idle, fired |-> FALSE]

\* App has rendered again.  lockFn is an arrow function written in the call of
\* useAutoLock, so it is a new function in every render, resetTimer (which
\* depends on it) is a new callback, and the effect that depends on resetTimer
\* runs: its cleanup clears the timeout and its body calls resetTimer().
\* byUser: the render follows a mousedown or keydown of the user.
renderEffect(byUser) ==
    timer' = resetTimer(isLocked', settings'.autoLockMinutes,
                        IF byUser THEN 0 ELSE timer.idle)

\* mousedown, keydown, scroll or touchstart with no handler of the vault
\* behind it; the listeners are there only while the vault is unlocked
handleActivity ==
    /\ ~isLocked
    /\ timer' = resetTimer(isLocked, settings.autoLockMinutes, 0)
    /\ UNCHANGED <<vaultVars, rpc, crypt, manager>>

\* a minute goes by while the timeout is pending
tick ==
    /\ timer.armed /\ timer.left > 0
    /\ timer' = [timer EXCEPT !.left = @ - 1, !.idle = @ + 1]
    /\ UNCHANGED <<vaultVars, rpc, crypt, manager>>

\* the timeout expires: lockFn() calls lockVault() and logger.log, App renders
\* locked and the effect leaves no timeout behind
timerExpires ==
    /\ timer.armed /\ timer.left = 0
    /\ lockVault
    /\ timer' = [resetTimer(TRUE, settings.autoLockMinutes, timer.idle) EXCEPT !.fired = TRUE]
    /\ UNCHANGED <<rpc, crypt, manager>>

----------------------------------------------------------------------------
(* WalletManager.tsx *)

handleDelete(id) ==
    /\ ~isLocked
    /\ id \in ids(wallets)
    /\ removeWallet(Closure, id)

handleSaveAttrs(selectedWalletId, editMetadata) ==
    /\ ~isLocked
    /\ selectedWalletId \in ids(wallets)
    /\ updateWalletMetadata(Closure, selectedWalletId, editMetadata)

\* processImport up to its await: '' when the name and the key pass the checks
\* made against the wallets of the render the handler belongs to
processImportError(cap, name, key) ==
    IF Trim(name) = "" \/ key = <<>>
    THEN "Name and Key required"
    ELSE IF \E i \in DOMAIN cap.wallets : cap.wallets[i].name = Trim(name)
         THEN "Name exists"
         ELSE IF ~createWalletFromKey(key).valid THEN "Invalid Key" ELSE ""

\* processImport from its await on: the record it returns
processImport(cap, name, key, metadata, uuid) ==
    [id |-> uuid,
     name |-> Trim(name),
     address |-> createWalletFromKey(key).address,
     encryptedPrivateKey |-> encryptKey(key, cap.password),
     metadata |-> metadata]

ImportRejected(op) ==
    /\ ret' = [NoReturn EXCEPT !.op = op]
    /\ UNCHANGED <<isLocked, hasVault, wallets, settings, masterPassword, store, tasks,
                   nextId, createdWith, added>>

ImportSuspends(kind, lines) ==
    /\ Cardinality(tasks) < MaxTasks
    /\ tasks' = tasks \cup {Task(kind, lines, GarbageFile)}
    /\ UNCHANGED <<isLocked, hasVault, wallets, settings, masterPassword, store, nextId,
                   ret, createdWith, added>>

handleSingleImport(newName, newKey) ==
    /\ ~isLocked
    /\ IF processImportError(Closure, newName, newKey) # ""
       THEN ImportRejected("processImport")
       ELSE ImportSuspends("single", <<[l |-> newName, k |-> newKey]>>)

\* the loop pushes the error of a line that fails the checks and goes on at
\* once; it suspends at encryptData for each line that passes them
handleBatchImport(lines) ==
    /\ ~isLocked
    /\ LET passing == SelectSeq(lines, LAMBDA line :
                                   processImportError(Closure, line.l, line.k) = "")
       IN IF passing = <<>>
          THEN ImportRejected("processImport")
          ELSE ImportSuspends("batch", passing)

\* one turn of a suspended import: encryptData resolves, processImport returns,
\* onAddWallet runs, and the loop goes on to the next line
importResumes(t) ==
    /\ t \in tasks
    /\ t.kind \in {"single", "batch"}
    /\ nextId < MaxIds
    /\ LET line == Head(t.lines)
           w == processImport(t.cap, line.l, line.k, NoMetadata, nextId + 1)
       IN /\ tasks' = (tasks \ {t}) \cup
                        (IF Tail(t.lines) = <<>> THEN {} ELSE {[t EXCEPT !.lines = Tail(@)]})
          /\ nextId' = nextId + 1
          /\ addWallet(t.cap, w)
          /\ ret' = [NoReturn EXCEPT !.op = "processImport", !.ok = TRUE]
    /\ UNCHANGED <<isLocked, hasVault, settings, masterPassword, createdWith>>

\* two wallets with different keys
ManagerImports == {[name |-> "A", key |-> K1], [name |-> "B", key |-> K2]}

\* The effects of a render of the wallet manager in which the handler has
\* set selectedWalletId to sel and left the list ws: the auto-selection
\* effect (deps [wallets.length]) selects the first wallet when none is
\* selected, and the effect with deps [selectedWalletId, viewMode] calls
\* setRevealedKey(null) when the selection has changed.
afterRender(m, sel, ws) ==
    LET chosen == IF Len(ws) # Len(wallets) /\ Len(ws) > 0 /\ sel = NoSelection
                  THEN ws[1].id
                  ELSE sel
    IN [m EXCEPT !.selectedWalletId = chosen,
                 !.revealedKey = IF chosen # m.selectedWalletId \/ sel # m.selectedWalletId
                                 THEN <<>>
                                 ELSE @]

\* App renders the wallet manager while the vault is unlocked; a manager that
\* is unmounted loses its state, and a setState of a handler that outlives it
\* does nothing
mountManager ==
    manager' = IF isLocked'
               THEN NoManager
               ELSE IF isLocked
                    THEN [NoManager EXCEPT !.selectedWalletId =
                             IF Len(wallets') > 0 THEN wallets'[1].id ELSE NoSelection]
                    ELSE manager

\* onClick of a row of the wallet list
selectWallet(id) ==
    /\ ~isLocked
    /\ id \in ids(wallets)
    /\ manager' = afterRender(manager, id, wallets)
    /\ UNCHANGED <<vaultVars, rpc, crypt, timer>>

\* handleSingleImport after processImport: onAddWallet(w),
\* setSelectedWalletId(w.id)
importSelects(t) ==
    /\ importResumes(t)
    /\ manager' = IF isLocked THEN manager ELSE afterRender(manager, nextId', wallets')
    /\ UNCHANGED <<rpc, crypt, timer>>

\* handleDelete: onRemoveWallet(id); if (selectedWalletId === id)
\* setSelectedWalletId(null)
deleteSelects(id) ==
    /\ handleDelete(id)
    /\ manager' = afterRender(manager,
                              IF manager.selectedWalletId = id
                              THEN NoSelection
                              ELSE manager.selectedWalletId,
                              wallets')
    /\ UNCHANGED <<rpc, crypt, timer>>

\* handleRevealKey up to its await: a key that is shown is hidden; otherwise
\* decryptData is called on the blob of the selected wallet
handleRevealKey ==
    /\ ~isLocked
    /\ IF manager.revealedKey # <<>>
       THEN manager' = [manager EXCEPT !.revealedKey = <<>>]
       ELSE /\ manager.selectedWalletId \in ids(wallets)
            /\ Cardinality(manager.pending) < MaxTasks
            /\ LET selectedWallet ==
                      CHOOSE w \in Range(wallets) : w.id = manager.selectedWalletId
               IN manager' = [manager EXCEPT !.pending = @ \cup
                                 {[blob |-> selectedWallet.encryptedPrivateKey,
                                   password |-> masterPassword]}]
    /\ UNCHANGED <<vaultVars, rpc, crypt, timer>>

\* handleRevealKey from its await on: setRevealedKey(pk), or the alert of the
\* catch
revealResumes(r) ==
    /\ r \in manager.pending
    /\ LET pk == decryptData(r.blob, r.password)
       IN manager' = [manager EXCEPT
                        !.pending = @ \ {r},
                        !.revealedKey = IF pk = DecryptionFailed THEN @ ELSE pk]
    /\ UNCHANGED <<vaultVars, rpc, crypt, timer>>

\* the 30 s of keyTimer are over: setRevealedKey(null)
keyTimerExpires ==
    /\ manager.revealedKey # <<>>
    /\ manager' = [manager EXCEPT !.revealedKey = <<>>]
    /\ UNCHANGED <<vaultVars, rpc, crypt, timer>>

----------------------------------------------------------------------------
(* API console: handleProcessRequest, vault_importPrivateKey *)

apiImportError(cap, label, privateKey) ==
    IF label = "" \/ privateKey = <<>>
    THEN "Import requires 'label' and 'privateKey' in payload"
    ELSE IF \E i \in DOMAIN cap.wallets : cap.wallets[i].name = label
         THEN "Wallet label already exists"
         ELSE IF ~createWalletFromKey(privateKey).valid THEN "Invalid Private Key" ELSE ""

apiImportPrivateKey(label, privateKey) ==
    /\ ~isLocked
    /\ IF apiImportError(Closure, label, privateKey) # ""
       THEN ImportRejected("vault_importPrivateKey")
       ELSE ImportSuspends("api", <<[l |-> label, k |-> privateKey]>>)

apiImportResumes(t) ==
    /\ t \in tasks
    /\ t.kind = "api"
    /\ nextId < MaxIds
    /\ LET line == Head(t.lines)
           newWallet == [id |-> nextId + 1,
                         name |-> line.l,
                         address |-> createWalletFromKey(line.k).address,
                         encryptedPrivateKey |-> encryptKey(line.k, t.cap.password),
                         metadata |-> [notes |-> "Imported via API"]]
       IN /\ tasks' = tasks \ {t}
          /\ nextId' = nextId + 1
          /\ addWallet(t.cap, newWallet)
          /\ ret' = [NoReturn EXCEPT !.op = "vault_importPrivateKey", !.ok = TRUE]
    /\ UNCHANGED <<isLocked, hasVault, settings, masterPassword, createdWith>>

----------------------------------------------------------------------------
(* API console: handleProcessRequest, the other request types *)

SigningTypes == {"personal_sign", "eth_signTransaction", "eth_signTypedData"}

ReadOnlyTypes == {"eth_getBalance", "eth_call", "eth_estimateGas", "eth_sendRawTransaction"}

\* request.type.startsWith('vault_')
VaultTypes == {"vault_listWallets", "vault_getAddress", "vault_importPrivateKey",
               "vault_exportKeys"}

\* the requests sent to the console: the signing types, two read-only types,
\* the vault methods (one that does not exist), and a type that is none of these
RequestTypes ==
    SigningTypes \cup {"eth_getBalance", "eth_sendRawTransaction"} \cup
    {"vault_listWallets", "vault_getAddress", "vault_exportKeys", "eth_accounts"}

\* walletLabel: missing, the label of the imports, a label no wallet has
RequestLabels == {"", "A", "Z"}

Requests == [type : RequestTypes, walletLabel : RequestLabels]

\* wallets.find(w => w.name === request.walletLabel): the position, or 0
find_firstWallet(ws, label) ==
    IF \E i \in DOMAIN ws : ws[i].name = label
    THEN CHOOSE i \in DOMAIN ws :
            ws[i].name = label /\ \A j \in DOMAIN ws : ws[j].name = label => i <= j
    ELSE IF ws = <<>> THEN 0 ELSE 1

find(ws, label) ==
    IF \E i \in DOMAIN ws : ws[i].name = label
    THEN CHOOSE i \in DOMAIN ws :
            ws[i].name = label /\ \A j \in DOMAIN ws : ws[j].name = label => i <= j
    ELSE 0

Response(request) == [NoReturn EXCEPT !.op = request.type, !.label = request.walletLabel]

\* the catch of handleProcessRequest: { status: 'error', error: err.message }
ErrorResponse(request, message) == [Response(request) EXCEPT !.error = message]

vaultMethod(cap, request) ==
    IF request.type = "vault_listWallets"
    THEN [Response(request) EXCEPT !.ok = TRUE,
            !.body = [i \in DOMAIN cap.wallets |->
                        [label |-> cap.wallets[i].name, address |-> cap.wallets[i].address]]]
    ELSE IF request.type = "vault_getAddress"
         THEN IF find(cap.wallets, request.walletLabel) = 0
              THEN ErrorResponse(request, <<"Wallet not found: ", request.walletLabel>>)
              ELSE [Response(request) EXCEPT !.ok = TRUE,
                      !.address = cap.wallets[find(cap.wallets, request.walletLabel)].address]
         ELSE ErrorResponse(request, <<"Unknown vault method">>)

\* the chain operation behind a read-only request succeeds or throws
readOnlyMethod(request, rpcOk) ==
    IF rpcOk
    THEN [Response(request) EXCEPT !.ok = TRUE]
    ELSE ErrorResponse(request, <<"RPC Error">>)

\* section 3 of the handler: resolve the wallet, decrypt its key, then look at
\* the request type
signatureMethod(cap, request) ==
    LET target == IF request.walletLabel = "" THEN 0
                  ELSE find(cap.wallets, request.walletLabel)
    IN IF target = 0
       THEN ErrorResponse(request,
              <<"Operation ", request.type,
                " requires a valid 'walletLabel' present in the vault.">>)
       ELSE LET privateKey == decryptData(cap.wallets[target].encryptedPrivateKey,
                                          cap.password)
            IN IF privateKey = DecryptionFailed
               THEN [ErrorResponse(request, DecryptionFailed) EXCEPT !.decrypted = TRUE]
               ELSE IF request.type \in SigningTypes
                    THEN [Response(request) EXCEPT !.ok = TRUE, !.decrypted = TRUE,
                            !.signature = <<request.type, privateKey>>]
                    ELSE [ErrorResponse(request, <<"Unsupported operation type">>)
                            EXCEPT !.decrypted = TRUE]

\* a request changes nothing of the vault, so the turns of its handler are
\* taken as one step
handleProcessRequest(request, rpcOk) ==
    /\ ~isLocked
    /\ request.type # "vault_importPrivateKey"
    /\ ret' = IF request.type \in VaultTypes
              THEN vaultMethod(Closure, request)
              ELSE IF request.type \in ReadOnlyTypes
                   THEN readOnlyMethod(request, rpcOk)
                   ELSE signatureMethod(Closure, request)
    /\ UNCHANGED <<isLocked, hasVault, wallets, settings, masterPassword, store, tasks,
                   nextId, createdWith, added>>

\* JSON.parse(requestJson) throws
handleInvalidRequest ==
    /\ ~isLocked
    /\ ret' = [NoReturn EXCEPT !.op = "invalid", !.error = <<"Invalid JSON format.">>]
    /\ UNCHANGED <<isLocked, hasVault, wallets, settings, masterPassword, store, tasks,
                   nextId, createdWith, added>>

----------------------------------------------------------------------------
(* Settings.tsx *)

handleFileUpload(file) ==
    /\ ~isLocked
    /\ Cardinality(tasks) < MaxTasks
    /\ tasks' = tasks \cup {Task("upload", NoLines, file)}
    /\ UNCHANGED <<isLocked, hasVault, wallets, settings, masterPassword, store, nextId,
                   ret, createdWith, added>>

\* reader.onload: onImport(content) = importVaultData(content, masterPassword)
readerOnload(t) ==
    /\ t \in tasks
    /\ t.kind = "upload"
    /\ tasks' = tasks \ {t}
    /\ importVaultData(t.cap, t.json, t.cap.password)
    /\ UNCHANGED <<isLocked, hasVault, settings, masterPassword, nextId, createdWith>>

\* what is typed into the label field: two labels with the same letters
AttrLabels == {"Risk", "risk!"}
\* Math.floor(Math.random() * 1000), cut to the first MaxRandom values
RandomSuffixes == 0..(MaxRandom - 1)

\* newAttrLabel.toLowerCase().replace(/[^a-z0-9]/g, '') + '_' + random
attributeKey(label, random) ==
    CASE label \in {"Risk", "risk!"} /\ random = 0 -> "risk_0"
      [] label \in {"Risk", "risk!"} /\ random = 1 -> "risk_1"
      [] label \in {"Risk", "risk!"} /\ random = 2 -> "risk_2"
      [] OTHER -> "_"

addAttribute(newAttrLabel, random) ==
    /\ ~isLocked
    /\ Len(settings.attributeDefinitions) < MaxAttrs
    /\ updateSettings(Closure,
         [attributeDefinitions |->
            Append(settings.attributeDefinitions,
                   [key |-> attributeKey(newAttrLabel, random), label |-> newAttrLabel])])

removeAttribute(key) ==
    /\ ~isLocked
    /\ \E i \in DOMAIN settings.attributeDefinitions :
          settings.attributeDefinitions[i].key = key
    /\ updateSettings(Closure,
         [attributeDefinitions |->
            SelectSeq(settings.attributeDefinitions, LAMBDA d : d.key # key)])

----------------------------------------------------------------------------
(* cryptoService.ts: chain operations *)

\* a chain operation starts: fetchWithRetry takes the first url of the network
\* fetchWithRetry(rpcUrls, callback) is entered with the urls of a network
startCall(op, networkKey, network) ==
    /\ rpc.pc = "done"
    /\ rpc' = [NoRpc EXCEPT !.op = op, !.key = networkKey, !.network = network,
                            !.i = 1, !.pc = "getNetwork"]
    /\ UNCHANGED <<vaultVars, crypt, timer, manager>>

\* if (!rpcUrls) throw new Error(`Unsupported network key: ${networkKey}`)
throwUnsupported(op, networkKey) ==
    /\ rpc.pc = "done"
    /\ rpc' = [NoRpc EXCEPT !.op = op, !.key = networkKey,
                            !.out = <<"throw", UnsupportedNetwork(networkKey)>>]
    /\ UNCHANGED <<vaultVars, crypt, timer, manager>>

\* ethCall, estimateGas, fetchNonce and broadcastTransaction begin alike
startOrThrow(op, networkKey) ==
    IF Configured(networkKey)
    THEN startCall(op, networkKey, ToLowerCase(networkKey))
    ELSE throwUnsupported(op, networkKey)

ethCall(networkKey) == startOrThrow("ethCall", networkKey)

estimateGas(networkKey) == startOrThrow("estimateGas", networkKey)

fetchNonce(networkKey) == startOrThrow("fetchNonce", networkKey)

broadcastTransaction(networkKey) == startOrThrow("broadcastTransaction", networkKey)

\* NETWORKS[networkKey.toLowerCase()] || NETWORKS['mainnet']
fetchBalance(networkKey) ==
    startCall("fetchBalance", networkKey,
              IF Configured(networkKey) THEN ToLowerCase(networkKey) ELSE "mainnet")

\* await provider.getNetwork()
getNetwork(outcome) ==
    /\ rpc.pc = "getNetwork"
    /\ LET r == [rpc EXCEPT !.log = Append(@, Called(rpc, "getNetwork", outcome))]
       IN rpc' = CASE outcome = "ok" -> [r EXCEPT !.pc = "callback"]
                   [] outcome = "error" -> retryNext(r, <<rpc.i, "getNetwork">>)
                   [] OTHER -> [r EXCEPT !.pc = "pending", !.wait = {"getNetwork"}]
    /\ UNCHANGED <<vaultVars, crypt, timer, manager>>

\* the callback of fetchNonce: provider.getTransactionCount(address)
fetchNonceCallback(outcome) ==
    /\ rpc.op = "fetchNonce" /\ rpc.pc = "callback"
    /\ LET r == [rpc EXCEPT !.log = Append(@, Called(rpc, "getTransactionCount", outcome))]
       IN rpc' = CASE outcome = "ok" ->
                        [r EXCEPT !.pc = "done", !.out = <<"return", Balance(rpc.i)>>]
                   [] outcome = "error" -> retryNext(r, <<rpc.i, "getTransactionCount">>)
                   [] OTHER -> [r EXCEPT !.pc = "pending", !.wait = {"getTransactionCount"}]
    /\ UNCHANGED <<vaultVars, crypt, timer, manager>>

\* the callbacks of ethCall and estimateGas: provider.call(tx),
\* provider.estimateGas(tx)
callCallback(outcome) ==
    /\ rpc.op \in {"ethCall", "estimateGas"} /\ rpc.pc = "callback"
    /\ LET r == [rpc EXCEPT !.log = Append(@, Called(rpc, rpc.op, outcome))]
       IN rpc' = CASE outcome = "ok" ->
                        [r EXCEPT !.pc = "done", !.out = <<"return", Balance(rpc.i)>>]
                   [] outcome = "error" -> retryNext(r, <<rpc.i, rpc.op>>)
                   [] OTHER -> [r EXCEPT !.pc = "pending", !.wait = {rpc.op}]
    /\ UNCHANGED <<vaultVars, crypt, timer, manager>>

\* what provider.broadcastTransaction(rawTx) does: the endpoint takes the
\* transaction and answers ("ok"), refuses it ("error"), takes it while the
\* answer does not arrive and the call rejects ("lost"), or never answers
BroadcastOutcomes == Outcomes \cup {"lost"}

\* the callback of broadcastTransaction
broadcastCallback(outcome) ==
    /\ rpc.op = "broadcastTransaction" /\ rpc.pc = "callback"
    /\ LET r == [rpc EXCEPT !.log = Append(@, Called(rpc, "broadcastTransaction", outcome))]
       IN rpc' = CASE outcome = "ok" ->
                        [r EXCEPT !.pc = "done", !.out = <<"return", <<"hash">>>>]
                   [] outcome \in {"error", "lost"} ->
                        retryNext(r, <<rpc.i, "broadcastTransaction">>)
                   [] OTHER -> [r EXCEPT !.pc = "pending", !.wait = {"broadcastTransaction"}]
    /\ UNCHANGED <<vaultVars, crypt, timer, manager>>

\* TOKEN_ADDRESSES[networkKey.toLowerCase()] || {}: a token the key does not
\* list is not queried
TokenOutcomes(networkKey, token) ==
    IF Configured(networkKey) /\ token \in TOKEN_ADDRESSES[ToLowerCase(networkKey)]
    THEN Outcomes
    ELSE {"none"}

\* Promise.resolve(BigInt(0)), or balanceOf(address).catch(() => BigInt(0))
tokenBalance_noCatch(outcome, i) == IF outcome = "none" THEN 0 ELSE Balance(i)

tokenBalance(outcome, i) == IF outcome = "ok" THEN Balance(i) ELSE 0

TokenCalls(r, usdt, usdc) ==
    (IF usdt = "none" THEN <<>> ELSE <<Called(r, "usdt", usdt)>>) \o
    (IF usdc = "none" THEN <<>> ELSE <<Called(r, "usdc", usdc)>>)

\* the callback of fetchBalance: the three queries are issued, and
\* Promise.all settles when the native query rejects or when all have resolved
fetchBalanceCallback(native, usdt, usdc) ==
    /\ rpc.op = "fetchBalance" /\ rpc.pc = "callback"
    /\ LET r == [rpc EXCEPT !.log = Append(@, Called(rpc, "getBalance", native))
                                      \o TokenCalls(rpc, usdt, usdc)]
           hung == (IF native = "hang" THEN {"getBalance"} ELSE {}) \cup
                   (IF usdt = "hang" THEN {"usdt"} ELSE {}) \cup
                   (IF usdc = "hang" THEN {"usdc"} ELSE {})
       IN rpc' = IF native = "error"
                 THEN retryNext(r, <<rpc.i, "getBalance">>)
                 ELSE IF hung # {}
                      THEN [r EXCEPT !.pc = "pending", !.wait = hung]
                      ELSE [r EXCEPT !.pc = "done",
                              !.out = <<"return",
                                        [eth |-> formatValue(Balance(rpc.i), 18),
                                         wei |-> Balance(rpc.i),
                                         usdt |-> formatValue(tokenBalance(usdt, rpc.i), 6),
                                         usdc |-> formatValue(tokenBalance(usdc, rpc.i), 6)]>>]
    /\ UNCHANGED <<vaultVars, crypt, timer, manager>>

\* setTimeout(() => reject(new Error("RPC Timeout")), 5000), raced with getBalance
rpcTimeout ==
    /\ rpc.pc = "pending" /\ "getBalance" \in rpc.wait
    /\ rpc' = retryNext([rpc EXCEPT !.log = Append(@, Called(rpc, "timeout", "error"))],
                        <<rpc.i, "RPC Timeout">>)
    /\ UNCHANGED <<vaultVars, crypt, timer, manager>>

----------------------------------------------------------------------------
(* cryptoService.ts: encryptData and decryptData on their own *)

CodeUnits == {"a", "BOM", "HI", "LO"}

Plaintexts == UNION {[1..n -> CodeUnits] : n \in 0..MaxPlainLen}

\* passwords handed to encryptData and decryptData: any string, among them
\* two that are one unpaired surrogate each
CryptoPasswords == Passwords \cup {<<"HI">>, <<"LO">>}

\* one bit of a Uint8Array changed
FlipBit(bytes) == <<"flipped", bytes>>

encryptStep(data, password, salt, iv) ==
    /\ crypt.pc \in {"idle", "opened"}
    /\ crypt' = [NoCrypt EXCEPT !.pc = "sealed", !.plain = data, !.password = password,
                                !.packet = encryptData(data, password, salt, iv)]
    /\ UNCHANGED <<vaultVars, rpc, timer, manager>>

decryptStep(password) ==
    /\ crypt.pc = "sealed"
    /\ crypt' = [crypt EXCEPT !.pc = "opened", !.with = password,
                              !.out = decryptData(crypt.packet, password)]
    /\ UNCHANGED <<vaultVars, rpc, timer, manager>>

\* The stored envelope is changed between encryptData and decryptData: the
\* salt, the iv or the ciphertext of the packet is replaced by another value,
\* or the base64 text is cut short.
alterSalt(salt) ==
    /\ crypt.pc = "sealed" /\ crypt.altered = "none"
    /\ salt # crypt.packet.salt
    /\ crypt' = [crypt EXCEPT !.altered = "salt", !.packet.salt = salt]
    /\ UNCHANGED <<vaultVars, rpc, timer, manager>>

alterIv(iv) ==
    /\ crypt.pc = "sealed" /\ crypt.altered = "none"
    /\ iv # crypt.packet.iv
    /\ crypt' = [crypt EXCEPT !.altered = "iv", !.packet.iv = iv]
    /\ UNCHANGED <<vaultVars, rpc, timer, manager>>

alterCiphertext ==
    /\ crypt.pc = "sealed" /\ crypt.altered = "none"
    /\ crypt' = [crypt EXCEPT !.altered = "data", !.packet.data.body = FlipBit(@)]
    /\ UNCHANGED <<vaultVars, rpc, timer, manager>>

alterTag ==
    /\ crypt.pc = "sealed" /\ crypt.altered = "none"
    /\ crypt' = [crypt EXCEPT !.altered = "data", !.packet.data.tag = FlipBit(@)]
    /\ UNCHANGED <<vaultVars, rpc, timer, manager>>

truncatePacket ==
    /\ crypt.pc = "sealed" /\ crypt.altered = "none"
    /\ crypt' = [crypt EXCEPT !.altered = "envelope", !.packet = MalformedPacket]
    /\ UNCHANGED <<vaultVars, rpc, timer, manager>>

----------------------------------------------------------------------------
(* Edits made to localStorage from outside the application *)

tamperWallets ==
    /\ store # <<>> /\ Parsable(store[1])
    /\ \E ws \in {<<>>, ForeignBackup.wallets} :
          /\ ws # store[1].wallets
          /\ store' = <<[store[1] EXCEPT !.wallets = ws]>>
    /\ UNCHANGED <<isLocked, hasVault, wallets, settings, masterPassword, tasks, nextId,
                   ret, createdWith, added>>

\* a store written before enableLogging existed, or with another timeout
tamperSettings ==
    /\ store # <<>> /\ Parsable(store[1])
    /\ \E st \in {[autoLockMinutes |-> 0, attributeDefinitions |-> <<>>]} :
          /\ st # store[1].settings
          /\ store' = <<[store[1] EXCEPT !.settings = st]>>
    /\ UNCHANGED <<isLocked, hasVault, wallets, settings, masterPassword, tasks, nextId,
                   ret, createdWith, added>>

corruptStore ==
    /\ store # <<>> /\ Parsable(store[1])
    /\ store' = <<[garbage |-> TRUE]>>
    /\ UNCHANGED <<isLocked, hasVault, wallets, settings, masterPassword, tasks, nextId,
                   ret, createdWith, added>>

\* the checksum field is deleted from the stored JSON, or set to ''
removeChecksum ==
    /\ store # <<>> /\ Parsable(store[1])
    /\ Truthy(store[1].checksum)
    /\ store' = <<[store[1] EXCEPT !.checksum = <<>>]>>
    /\ UNCHANGED <<isLocked, hasVault, wallets, settings, masterPassword, tasks, nextId,
                   ret, createdWith, added>>

removeStore ==
    /\ store # <<>>
    /\ store' = <<>>
    /\ UNCHANGED <<isLocked, hasVault, wallets, settings, masterPassword, tasks, nextId,
                   ret, createdWith, added>>

----------------------------------------------------------------------------

Next ==
    \/ (\E p \in Passwords : handleSetup(p)) /\ UNCHANGED serviceVars
    \/ (\E p \in Passwords : handleUnlock(p)) /\ UNCHANGED serviceVars
    \/ handleManualLock /\ UNCHANGED serviceVars
    \/ autoLockTimer /\ UNCHANGED serviceVars
    \/ lockVaultAgain /\ UNCHANGED serviceVars
    \/ clearVault /\ UNCHANGED serviceVars
    \/ Mount /\ UNCHANGED serviceVars
    \/ (\E id \in ids(wallets) : handleDelete(id)) /\ UNCHANGED serviceVars
    \/ (wallets # <<>> /\ handleSaveAttrs(wallets[1].id, EditedMetadata)) /\ UNCHANGED serviceVars
    \/ (\E i \in TypedImports : handleSingleImport(i.name, i.key)) /\ UNCHANGED serviceVars
    \/ (\E lines \in Batches : handleBatchImport(lines)) /\ UNCHANGED serviceVars
    \/ (\E t \in tasks : importResumes(t)) /\ UNCHANGED serviceVars
    \/ (\E i \in ApiImports : apiImportPrivateKey(i.label, i.privateKey)) /\ UNCHANGED serviceVars
    \/ (\E t \in tasks : apiImportResumes(t)) /\ UNCHANGED serviceVars
    \/ (\E f \in Files : handleFileUpload(f)) /\ UNCHANGED serviceVars
    \/ (\E t \in tasks : readerOnload(t)) /\ UNCHANGED serviceVars
    \/ (settings.attributeDefinitions = <<>> /\ addAttribute("Risk", 0)) /\ UNCHANGED serviceVars
    \/ (\E i \in DOMAIN settings.attributeDefinitions :
           removeAttribute(settings.attributeDefinitions[i].key)) /\ UNCHANGED serviceVars

Spec == Init /\ [][Next]_vars

OutOfBand ==
    \/ tamperWallets
    \/ tamperSettings
    \/ corruptStore
    \/ removeChecksum
    \/ removeStore

\* the session manager over a store that is also edited from outside
NextOOB ==
    \/ (\E p \in Passwords : handleSetup(p)) /\ UNCHANGED serviceVars
    \/ (\E p \in Passwords : handleUnlock(p)) /\ UNCHANGED serviceVars
    \/ handleManualLock /\ UNCHANGED serviceVars
    \/ Mount /\ UNCHANGED serviceVars
    \/ (\E i \in ApiImports : apiImportPrivateKey(i.label, i.privateKey)) /\ UNCHANGED serviceVars
    \/ (\E t \in tasks : apiImportResumes(t)) /\ UNCHANGED serviceVars
    \/ (\E id \in ids(wallets) : handleDelete(id)) /\ UNCHANGED serviceVars
    \/ (settings.attributeDefinitions = <<>> /\ addAttribute("Risk", 0)) /\ UNCHANGED serviceVars
    \/ (\E i \in DOMAIN settings.attributeDefinitions :
           removeAttribute(settings.attributeDefinitions[i].key)) /\ UNCHANGED serviceVars
    \/ OutOfBand /\ UNCHANGED serviceVars

SpecOOB == Init /\ [][NextOOB]_vars

\* The attribute editor of the settings page, with every label and every
\* random suffix; Next and NextOOB only replace the default attribute by one.
NextSettings ==
    \/ (\E p \in Passwords : handleSetup(p)) /\ UNCHANGED serviceVars
    \/ (\E p \in Passwords : handleUnlock(p)) /\ UNCHANGED serviceVars
    \/ handleManualLock /\ UNCHANGED serviceVars
    \/ Mount /\ UNCHANGED serviceVars
    \/ (\E l \in AttrLabels, r \in RandomSuffixes : addAttribute(l, r)) /\ UNCHANGED serviceVars
    \/ (\E i \in DOMAIN settings.attributeDefinitions :
           removeAttribute(settings.attributeDefinitions[i].key)) /\ UNCHANGED serviceVars

SpecSettings == Init /\ [][NextSettings]_vars

\* The wallet manager: selection, import, removal and the reveal of a key
NextManager ==
    \/ (\E p \in Passwords : handleSetup(p)) /\ mountManager /\ UNCHANGED <<rpc, crypt, timer>>
    \/ (\E p \in Passwords : handleUnlock(p)) /\ mountManager /\ UNCHANGED <<rpc, crypt, timer>>
    \/ handleManualLock /\ mountManager /\ UNCHANGED <<rpc, crypt, timer>>
    \/ (\E i \in ManagerImports : handleSingleImport(i.name, i.key)) /\ UNCHANGED serviceVars
    \/ \E t \in tasks : importSelects(t)
    \/ \E id \in ids(wallets) : selectWallet(id)
    \/ \E id \in ids(wallets) : deleteSelects(id)
    \/ handleRevealKey
    \/ \E r \in manager.pending : revealResumes(r)
    \/ keyTimerExpires

SpecManager == Init /\ [][NextManager]_vars

\* The session with its inactivity timer.  What the user does is a user
\* activity followed by a render of App; an import that resumes renders App
\* with no user activity (setWallets and the log entry of onAddWallet).
UserEvent ==
    \/ (\E p \in Passwords : handleSetup(p)) /\ renderEffect(TRUE) /\ UNCHANGED <<rpc, crypt, manager>>
    \/ (\E p \in Passwords : handleUnlock(p)) /\ renderEffect(TRUE) /\ UNCHANGED <<rpc, crypt, manager>>
    \/ handleManualLock /\ renderEffect(TRUE) /\ UNCHANGED <<rpc, crypt, manager>>
    \/ (\E i \in TypedImports : handleSingleImport(i.name, i.key))
          /\ renderEffect(TRUE) /\ UNCHANGED <<rpc, crypt, manager>>
    \/ handleActivity

NextTimer ==
    \/ UserEvent
    \/ (\E t \in tasks : importResumes(t)) /\ renderEffect(FALSE) /\ UNCHANGED <<rpc, crypt, manager>>
    \/ tamperSettings /\ UNCHANGED serviceVars
    \/ tick
    \/ timerExpires

SpecTimer == Init /\ [][NextTimer]_vars

\* Time goes on, a timeout that is due runs, and a pending encryptData settles.
SpecTimerFair ==
    /\ SpecTimer
    /\ WF_vars(tick)
    /\ WF_vars(timerExpires)
    /\ WF_vars(\E t \in tasks : importResumes(t) /\ renderEffect(FALSE) /\ UNCHANGED <<rpc, crypt, manager>>)

\* the API console over a vault filled by API imports and by a backup
NextApi ==
    \/ (\E p \in Passwords : handleSetup(p)) /\ UNCHANGED serviceVars
    \/ (\E p \in Passwords : handleUnlock(p)) /\ UNCHANGED serviceVars
    \/ handleManualLock /\ UNCHANGED serviceVars
    \/ (\E i \in ApiImports : apiImportPrivateKey(i.label, i.privateKey)) /\ UNCHANGED serviceVars
    \/ (\E t \in tasks : apiImportResumes(t)) /\ UNCHANGED serviceVars
    \/ handleFileUpload(ForeignBackup) /\ UNCHANGED serviceVars
    \/ (\E t \in tasks : readerOnload(t)) /\ UNCHANGED serviceVars
    \/ (\E request \in Requests, rpcOk \in BOOLEAN :
           handleProcessRequest(request, rpcOk)) /\ UNCHANGED serviceVars
    \/ handleInvalidRequest /\ UNCHANGED serviceVars

SpecApi == Init /\ [][NextApi]_vars

\* the chain operations, over a session that stays as it is
NextRpc ==
    \/ \E n \in DOMAIN NETWORKS : fetchBalance(n)
    \/ \E n \in DOMAIN NETWORKS : fetchNonce(n)
    \/ \E o \in Outcomes : getNetwork(o)
    \/ \E o \in Outcomes : fetchNonceCallback(o)
    \/ \E native \in Outcomes, usdt \in TokenOutcomes(rpc.key, "usdt"),
          usdc \in TokenOutcomes(rpc.key, "usdc") :
          fetchBalanceCallback(native, usdt, usdc)
    \/ rpcTimeout

SpecRpc == Init /\ [][NextRpc]_vars

\* The five network operations, called with configured and unconfigured keys
NextChain ==
    \/ \E n \in ChainKeys : fetchBalance(n)
    \/ \E n \in ChainKeys : ethCall(n)
    \/ \E n \in ChainKeys : estimateGas(n)
    \/ \E n \in ChainKeys : fetchNonce(n)
    \/ \E n \in ChainKeys : broadcastTransaction(n)
    \/ \E o \in Outcomes : getNetwork(o)
    \/ \E o \in Outcomes : callCallback(o)
    \/ \E o \in Outcomes : fetchNonceCallback(o)
    \/ \E o \in BroadcastOutcomes : broadcastCallback(o)
    \/ \E native \in Outcomes, usdt \in TokenOutcomes(rpc.key, "usdt"),
          usdc \in TokenOutcomes(rpc.key, "usdc") :
          fetchBalanceCallback(native, usdt, usdc)
    \/ rpcTimeout

SpecChain == Init /\ [][NextChain]_vars

\* encryptData followed by decryptData, on plaintexts of up to MaxPlainLen units
NextCrypto ==
    \/ \E data \in Plaintexts, password \in CryptoPasswords, salt \in Salts, iv \in Ivs :
          encryptStep(data, password, salt, iv)
    \/ \E password \in CryptoPasswords : decryptStep(password)
    \/ \E salt \in Salts : alterSalt(salt)
    \/ \E iv \in Ivs : alterIv(iv)
    \/ alterCiphertext
    \/ alterTag
    \/ truncatePacket

SpecCrypto == Init /\ [][NextCrypto]_vars

----------------------------------------------------------------------------
(* Properties *)

StorePresent == store # <<>> /\ Parsable(store[1])

names(ws) == {ws[i].name : i \in DOMAIN ws}

UniqueNames(ws) == \A i, j \in DOMAIN ws : i # j => ws[i].name # ws[j].name

\* C1: unlockVault(password) returns true and unlocks the session exactly when
\* a persisted store exists (and parses) and hash(password) equals its
\* masterHash; on success the working wallets are the persisted wallets and
\* the working settings are the persisted settings laid over the defaults.
C1_UnlockCorrect ==
    [][\A p \in Passwords :
         handleUnlock(p) =>
           LET matches == StorePresent /\ store[1].masterHash = hashPassword(p)
           IN /\ ret'.op = "unlockVault"
              /\ ret'.ok <=> matches
              /\ ~isLocked' <=> matches
              /\ matches =>
                   /\ wallets' = store'[1].wallets
                   /\ \A k \in DOMAIN DEFAULT_SETTINGS :
                        settings'[k] = IF k \in DOMAIN store'[1].settings
                                       THEN store'[1].settings[k]
                                       ELSE DEFAULT_SETTINGS[k]
                   /\ DOMAIN store'[1].settings \subseteq DOMAIN settings'
                   /\ masterPassword' = p]_vars

\* a successful unlock that loaded a non-empty wallet list and filled a settings
\* field the store did not have
C1_Witness ==
    /\ ret.op = "unlockVault" /\ ret.ok /\ ~isLocked
    /\ StorePresent
    /\ wallets # <<>> /\ wallets = store[1].wallets
    /\ "enableLogging" \notin DOMAIN store[1].settings
    /\ settings.enableLogging = TRUE

\* C2: whenever the vault is locked the session holds no plaintext master
\* password.
C2_LockedHasNoPassword == isLocked => masterPassword = <<>>

\* the vault was locked from an unlocked session that had wallets loaded
C2_Witness ==
    /\ isLocked /\ hasVault /\ masterPassword = <<>>
    /\ wallets # <<>>

\* C3: no update is lost: once no handler is suspended, every wallet handed to
\* addWallet or merged by importVaultData, and not removed since, is in the
\* working list and in the persisted store.
C3_NoLostUpdate ==
    (tasks = {} /\ ~isLocked /\ StorePresent) =>
        /\ added \subseteq ids(wallets)
        /\ added \subseteq ids(store[1].wallets)

\* C4: when no mutation is in flight while unlocked, the persisted wallets and
\* settings equal the working wallets and settings.
C4_PersistedEqualsWorking ==
    (tasks = {} /\ ~isLocked /\ StorePresent) =>
        /\ store[1].wallets = wallets
        /\ store[1].settings = settings

C6_UniqueLabels ==
    /\ UniqueNames(wallets)
    /\ store # <<>> => UniqueNames(store[1].wallets)

\* C7 as claimed: after importVaultData every wallet of the vault can be
\* decrypted with the vault's master password.
C7_AllDecryptable ==
    (ret.op = "importVaultData" /\ ret.ok) =>
        \A i \in DOMAIN wallets :
            decryptData(wallets[i].encryptedPrivateKey, createdWith) # DecryptionFailed

\* C7 as amended: importVaultData re-encrypts nothing.  Every record of the
\* resulting list is a record of the list the handler merged into, unchanged,
\* or a record of the backup with the blob the backup holds; every backup
\* record so merged is in the list.
C7_BlobsKept ==
    [][\A t \in tasks :
         (readerOnload(t) /\ t.json.valid) =>
            /\ \A i \in DOMAIN wallets' :
                  wallets'[i] \in Range(t.cap.wallets) \cup Range(t.json.wallets)
            /\ Range(t.cap.wallets) \subseteq Range(wallets')
            /\ \A w \in Range(t.json.wallets) :
                  \E i \in DOMAIN wallets' :
                     /\ wallets'[i].id = w.id
                     /\ (wallets'[i].id \notin ids(t.cap.wallets) =>
                           wallets'[i].encryptedPrivateKey = w.encryptedPrivateKey)]_vars

\* a backup sealed under another password was merged, and its wallet does not
\* open with the vault's password
C7_Witness ==
    /\ ret.op = "importVaultData" /\ ret.ok /\ ret.count = 1
    /\ \E i \in DOMAIN wallets :
          /\ wallets[i] \in Range(ForeignBackup.wallets)
          /\ decryptData(wallets[i].encryptedPrivateKey, createdWith) = DecryptionFailed
          /\ decryptData(wallets[i].encryptedPrivateKey, Hunter22) = K1

\* C8: an unlockVault that fails returns false and changes nothing: the session
\* stays locked with an empty password, and the working wallets, the working
\* settings and the persisted store are as they were.
C8_FailedUnlockChangesNothing ==
    [][\A p \in Passwords :
         (handleUnlock(p) /\ ~ret'.ok) =>
            /\ isLocked' /\ masterPassword' = <<>>
            /\ UNCHANGED <<isLocked, masterPassword, wallets, settings, store, hasVault>>]_vars

\* an unlock failed while the store held wallets the session had not loaded
C8_Witness ==
    /\ ret.op = "unlockVault" /\ ~ret.ok
    /\ isLocked /\ masterPassword = <<>>
    /\ StorePresent /\ store[1].wallets # <<>> /\ wallets = <<>>

\* C9: when the persisted wallets or settings no longer match the stored
\* checksum, an unlock with the right password raises the tamper warning and
\* still succeeds, loading the data as it is in the store.
C9_TamperWarnsButUnlocks ==
    [][\A p \in Passwords :
         (/\ handleUnlock(p)
          /\ StorePresent
          /\ store[1].masterHash = hashPassword(p)
          /\ store[1].checksum # <<>>
          /\ store[1].checksum #
               Sha256([wallets |-> store[1].wallets, settings |-> store[1].settings]))
         => /\ ret'.ok /\ ret'.warned
            /\ ~isLocked'
            /\ wallets' = store[1].wallets]_vars

\* an unlock over a tampered store warned and loaded the tampered wallets
C9_Witness ==
    /\ ret.op = "unlockVault" /\ ret.ok /\ ret.warned
    /\ ~isLocked
    /\ StorePresent /\ wallets = store[1].wallets
    /\ wallets = ForeignBackup.wallets

\* C10: the persisted store is one complete unit {wallets, masterHash,
\* settings, checksum} whose checksum is the hash of its own {wallets,
\* settings}.
C10_StoreCompleteAndChecksummed ==
    /\ Len(store) <= 1
    /\ store # <<>> =>
         /\ DOMAIN store[1] = StoreFields
         /\ store[1].checksum =
              Sha256([wallets |-> store[1].wallets, settings |-> store[1].settings])

\* a store rewritten after wallets and settings both changed
C10_Witness ==
    /\ store # <<>>
    /\ store[1].wallets # <<>>
    /\ store[1].settings # DEFAULT_SETTINGS
    /\ store[1].masterHash = hashPassword(createdWith)

\* C11: every call of lockVault ends with isLocked = true and masterPassword =
\* '', and leaves the working wallets, the working settings and the persisted
\* store as they were; a call made right after another call changes nothing
\* of the session at all.
C11_LockIdempotent ==
    [][lockVault =>
         /\ isLocked' /\ masterPassword' = <<>>
         /\ UNCHANGED <<wallets, settings, store, hasVault>>
         /\ ret.op = "lockVault" =>
               UNCHANGED <<isLocked, masterPassword, wallets, settings, store,
                           hasVault, tasks>>]_vars

\* lockVault was called twice in a row on a session that had wallets loaded
C11_Witness ==
    /\ ret.op = "lockVault" /\ ret.count = 2
    /\ isLocked /\ masterPassword = <<>>
    /\ wallets # <<>> /\ StorePresent

\* C12: handleSetup with a password shorter than MinPasswordLength is rejected:
\* no store is persisted and the session stays locked without a vault; with a
\* password of MinPasswordLength characters or more the vault is created.
C12_ShortPasswordRejected ==
    [][\A p \in Passwords :
         handleSetup(p) =>
            IF Len(p) < MinPasswordLength
            THEN /\ store' = <<>> /\ UNCHANGED store
                 /\ isLocked' /\ ~hasVault' /\ masterPassword' = <<>>
                 /\ UNCHANGED <<wallets, settings>>
            ELSE /\ store' # <<>> /\ store'[1].masterHash = hashPassword(p)
                 /\ ~isLocked' /\ hasVault']_vars

\* a setup with a five-character password was turned down
C12_Witness ==
    /\ ret.op = "handleSetup" /\ Len(ret.pw) = MinPasswordLength - 1
    /\ isLocked /\ ~hasVault /\ store = <<>> /\ masterPassword = <<>>

\* C13: an import of a private key under a label that is in the vault fails
\* with the duplicate-label error and leaves the working wallets and the
\* persisted store as they were, through vault_importPrivateKey and through
\* the wallet manager: a request under such a label is rejected, and no import
\* completes under a label the vault holds.
C13_DuplicateLabelRejected ==
    [][/\ \A i \in ApiImports :
            (apiImportPrivateKey(i.label, i.privateKey) /\ i.label \in names(wallets)) =>
               /\ ret'.op = "vault_importPrivateKey" /\ ~ret'.ok
               /\ UNCHANGED <<wallets, store>>
       /\ \A i \in TypedImports :
            (handleSingleImport(i.name, i.key) /\ Trim(i.name) \in names(wallets)) =>
               /\ ret'.op = "processImport" /\ ~ret'.ok
               /\ UNCHANGED <<wallets, store>>
       /\ \A t \in tasks :
            (importResumes(t) \/ apiImportResumes(t)) =>
               Trim(Head(t.lines).l) \notin names(wallets)]_vars

\* C14: importVaultData adds exactly the backup wallets whose id is not in the
\* vault, after the wallets the vault holds, leaves every wallet the vault
\* holds as it is, persists the result, and returns success with count equal
\* to the number of wallets added.
C14_MergeAddsExactlyNewIds ==
    [][\A t \in tasks :
         (readerOnload(t) /\ t.json.valid) =>
            LET new == SelectSeq(t.json.wallets, LAMBDA w : w.id \notin ids(wallets))
            IN /\ wallets' = wallets \o new
               /\ store' # <<>> /\ store'[1].wallets = wallets'
               /\ ret'.op = "importVaultData" /\ ret'.ok
               /\ ret'.count = Len(new)]_vars

\* the endpoints the operation has called so far
contacted(r) == {r.log[k].url : k \in DOMAIN r.log}

\* the attempt on endpoint u failed: a call other than a token query rejected
attemptFailed(r, u) ==
    \E k \in DOMAIN r.log :
        /\ r.log[k].url = u /\ r.log[k].outcome = "error"
        /\ r.log[k].call \notin {"usdt", "usdc"}

\* C15: an operation run through fetchWithRetry calls the endpoints of the
\* network strictly in list order and goes to the next one only after a
\* failure; it returns the result of the first endpoint that succeeds and
\* calls none after it; it fails exactly when every endpoint of the list has
\* failed, and the error surfaced is then the one of the last endpoint.
C15_RetryInListOrder ==
    rpc.op # "idle" =>
        LET n == NETWORKS[rpc.network]
            failed == rpc.pc = "done" /\ rpc.out[1] \in {"throw", "Error"}
        IN /\ \A j, k \in DOMAIN rpc.log : j < k => rpc.log[j].url <= rpc.log[k].url
           /\ contacted(rpc) \subseteq 1..n
           /\ \A u \in contacted(rpc) : \A v \in 1..(u - 1) :
                  v \in contacted(rpc) /\ attemptFailed(rpc, v)
           /\ rpc.pc = "done" =>
                /\ failed <=> \A u \in 1..n : attemptFailed(rpc, u)
                /\ ~failed =>
                     /\ rpc.out[1] = "return"
                     /\ ~attemptFailed(rpc, rpc.i)
                     /\ rpc.i \in contacted(rpc) /\ \A u \in contacted(rpc) : u <= rpc.i
                     /\ rpc.op = "fetchNonce" => rpc.out[2] = Balance(rpc.i)
                     /\ rpc.op = "fetchBalance" => rpc.out[2].wei = Balance(rpc.i)
                /\ failed =>
                     /\ rpc.lastError[1] = n
                     /\ rpc.lastError[2] \in {rpc.log[k].call : k \in DOMAIN rpc.log} \cup {"RPC Timeout"}
                     /\ rpc.op = "fetchNonce" => rpc.out = <<"throw", rpc.lastError>>

\* the first three endpoints of mainnet failed and the fourth answered
C15_Witness ==
    /\ rpc.op = "fetchNonce" /\ rpc.network = "mainnet" /\ rpc.pc = "done"
    /\ rpc.out = <<"return", Balance(4)>>
    /\ \A u \in 1..3 : attemptFailed(rpc, u)

\* a step of the balance lookup in progress
lookupStep ==
    \/ \E o \in Outcomes : getNetwork(o)
    \/ \E native \in Outcomes, usdt \in TokenOutcomes(rpc.key, "usdt"),
          usdc \in TokenOutcomes(rpc.key, "usdc") :
          fetchBalanceCallback(native, usdt, usdc)
    \/ rpcTimeout

\* C16: fetchBalance always comes to a result or to 'Error': whatever call an
\* endpoint leaves unanswered (network detection, the native balance query, a
\* token balance query), the lookup is never left waiting with nothing to move
\* it on; the per-attempt timeout takes it to the next endpoint.
C16_SlowEndpointCannotStall ==
    (rpc.op = "fetchBalance" /\ rpc.pc # "done") => ENABLED lookupStep

\* the native balance query on endpoint u rejected or ran into the timeout
nativeFailed(r, u) ==
    \E k \in DOMAIN r.log :
        /\ r.log[k].url = u
        /\ \/ r.log[k].call = "getBalance" /\ r.log[k].outcome = "error"
           \/ r.log[k].call = "timeout"

tokenAnswered(r, u, token) ==
    \E k \in DOMAIN r.log :
        r.log[k].url = u /\ r.log[k].call = token /\ r.log[k].outcome = "ok"

tokenFailed(r, u, token) ==
    \E k \in DOMAIN r.log :
        r.log[k].url = u /\ r.log[k].call = token /\ r.log[k].outcome = "error"

\* what fetchBalance returns is built from the endpoint it stopped at: the
\* native balance of that endpoint, and for each token the balance it answered
\* or zero
ReturnsDegraded ==
    (rpc.op = "fetchBalance" /\ rpc.pc = "done" /\ rpc.out # <<"Error">>) =>
        /\ rpc.out[1] = "return"
        /\ ~nativeFailed(rpc, rpc.i)
        /\ rpc.out[2].wei = Balance(rpc.i)
        /\ rpc.out[2].eth = formatValue(Balance(rpc.i), 18)
        /\ \A token \in {"usdt", "usdc"} :
              rpc.out[2][token] = IF tokenAnswered(rpc, rpc.i, token)
                                  THEN formatValue(Balance(rpc.i), 6)
                                  ELSE formatValue(0, 6)

\* C17 as claimed: a failed token lookup yields zero for that token and the
\* fetch still succeeds with the endpoint's native balance; a failed native
\* query fails the attempt on its endpoint; and fetchBalance reports 'Error'
\* only when the native query failed on every endpoint.
C17_ErrorOnlyWhenNativeFailedEverywhere ==
    /\ ReturnsDegraded
    /\ (rpc.op = "fetchBalance" /\ rpc.pc = "done" /\ rpc.out = <<"Error">>) =>
          \A u \in 1..NETWORKS[rpc.network] : nativeFailed(rpc, u)

\* C17 as amended: the same, except that fetchBalance reports 'Error' exactly
\* when the attempt failed on every endpoint, and an attempt fails at network
\* detection or at the native balance query.
C17_TokenFailureDegradesToZero ==
    /\ ReturnsDegraded
    /\ (rpc.op = "fetchBalance" /\ rpc.pc = "done") =>
          /\ rpc.out = <<"Error">> <=> \A u \in 1..NETWORKS[rpc.network] : attemptFailed(rpc, u)
          /\ \A u \in 1..NETWORKS[rpc.network] :
                attemptFailed(rpc, u) <=>
                   \/ nativeFailed(rpc, u)
                   \/ \E k \in DOMAIN rpc.log :
                         /\ rpc.log[k].url = u /\ rpc.log[k].call = "getNetwork"
                         /\ rpc.log[k].outcome = "error"

\* the second endpoint answered the native query and USDC but failed on USDT,
\* after the native query had failed on the first
C17_Witness ==
    /\ rpc.op = "fetchBalance" /\ rpc.network = "mainnet" /\ rpc.pc = "done"
    /\ rpc.i = 2 /\ nativeFailed(rpc, 1)
    /\ tokenFailed(rpc, 2, "usdt") /\ tokenAnswered(rpc, 2, "usdc")
    /\ rpc.out[1] = "return"
    /\ rpc.out[2].usdt = formatValue(0, 6)
    /\ rpc.out[2].usdc = formatValue(Balance(2), 6)
    /\ rpc.out[2].wei = Balance(2)

\* a signing request whose walletLabel is missing or names no wallet of the vault
Unresolved(request) ==
    /\ request.type \in SigningTypes
    /\ request.walletLabel = "" \/ request.walletLabel \notin names(wallets)

\* C18 as claimed: a signing request whose walletLabel is missing or does not
\* resolve gets an error response that identifies the unresolved label; no
\* decryption is attempted and no signature is produced.
C18_ErrorNamesUnresolvedLabel ==
    [][\A request \in Requests, rpcOk \in BOOLEAN :
         (handleProcessRequest(request, rpcOk) /\ Unresolved(request)) =>
            /\ ~ret'.ok /\ ret'.error # <<>>
            /\ ~ret'.decrypted /\ ret'.signature = <<>>
            /\ request.walletLabel # "" => request.walletLabel \in Range(ret'.error)]_vars

\* C18 as amended: such a request gets an error response whose message names
\* the operation and says that a valid walletLabel present in the vault is
\* required (the label itself is not in it); no decryption is attempted, no
\* signature is produced, and the vault is left as it is.
C18_UnresolvedLabelRejected ==
    [][\A request \in Requests, rpcOk \in BOOLEAN :
         (handleProcessRequest(request, rpcOk) /\ Unresolved(request)) =>
            /\ ~ret'.ok
            /\ ret'.error = <<"Operation ", request.type,
                              " requires a valid 'walletLabel' present in the vault.">>
            /\ ~ret'.decrypted /\ ret'.signature = <<>>
            /\ UNCHANGED <<wallets, store>>]_vars

\* a personal_sign for label Z was turned down by a vault that holds wallet A
C18_Witness ==
    /\ ret.op = "personal_sign" /\ ret.label = "Z" /\ ~ret.ok
    /\ ret.error # <<>> /\ ret.error[2] = "personal_sign"
    /\ ~ret.decrypted /\ ret.signature = <<>>
    /\ "A" \in names(wallets) /\ ~isLocked

\* C19: the dispatcher decrypts a private key only for a request of one of the
\* three signing types whose label resolves; vault-management and read-only
\* requests never decrypt; a request of an unrecognized type is rejected with
\* an error and no key has been decrypted.
C19_DecryptsOnlyToSign ==
    [][\A request \in Requests, rpcOk \in BOOLEAN :
         handleProcessRequest(request, rpcOk) =>
            /\ ret'.decrypted =>
                  /\ request.type \in SigningTypes
                  /\ request.walletLabel \in names(wallets)
            /\ request.type \notin (SigningTypes \cup ReadOnlyTypes \cup VaultTypes) =>
                  ~ret'.ok /\ ret'.error # <<>> /\ ~ret'.decrypted]_vars

\* no surrogate stands alone, and the string does not begin with U+FEFF
WellFormed(s) ==
    /\ \A i \in DOMAIN s :
          /\ s[i] = "HI" => (i < Len(s) /\ s[i + 1] = "LO")
          /\ s[i] = "LO" => (i > 1 /\ s[i - 1] = "HI")
    /\ s # <<>> => s[1] # "BOM"

\* C20 as claimed: for every plaintext P and password W,
\* decryptData(encryptData(P, W), W) returns P.
C20_RoundTripEveryString ==
    (crypt.pc = "opened" /\ crypt.altered = "none" /\ crypt.with = crypt.password) =>
        crypt.out = crypt.plain

\* C20 as amended: for every password W and every plaintext P that is
\* well-formed UTF-16 and does not begin with U+FEFF,
\* decryptData(encryptData(P, W), W) returns P; for any other P it returns P
\* with each lone surrogate replaced by U+FFFD and a leading U+FEFF removed.
C20_RoundTripWellFormed ==
    (crypt.pc = "opened" /\ crypt.altered = "none" /\ crypt.with = crypt.password) =>
        /\ crypt.out = TextDecode(TextEncode(crypt.plain))
        /\ WellFormed(crypt.plain) => crypt.out = crypt.plain

\* a plaintext with a surrogate pair came back as it was
C20_Witness ==
    /\ crypt.pc = "opened" /\ crypt.altered = "none" /\ crypt.with = crypt.password
    /\ crypt.plain = <<"HI", "LO">>
    /\ crypt.out = crypt.plain
    /\ crypt.packet.salt = "salt2"

\* the packet was left as encryptData returned it and the password given to
\* decryptData encodes to the bytes of the one given to encryptData
SameKey == TextEncode(crypt.with) = TextEncode(crypt.password)

\* C21 as claimed: decryptData fails for every password other than the one
\* the data was encrypted with, for a packet whose ciphertext, salt or iv was
\* altered and for a malformed envelope, each time with the same error.
C21_FailsForAnyOtherPassword ==
    (crypt.pc = "opened" /\ (crypt.with # crypt.password \/ crypt.altered # "none")) =>
        crypt.out = DecryptionFailed

\* C21 as amended: decryptData fails for every password whose UTF-8 encoding
\* differs from that of the password the data was encrypted with, for a
\* packet whose ciphertext, salt or iv was altered and for a malformed
\* envelope, each time with the same error; a password that differs only in
\* unpaired surrogates opens an unaltered packet.
C21_FailsForOtherKeyOrAlteredPacket ==
    crypt.pc = "opened" =>
        IF SameKey /\ crypt.altered = "none"
        THEN crypt.out = TextDecode(TextEncode(crypt.plain))
        ELSE crypt.out = DecryptionFailed

\* the right password was given for a packet whose iv was replaced
C21_Witness ==
    /\ crypt.pc = "opened" /\ crypt.with = crypt.password
    /\ crypt.altered = "iv"
    /\ crypt.out = DecryptionFailed

\* C22: from the time lockVault has run until the next successful unlock, no
\* encryption or decryption under the master password is started and the
\* persisted store is not modified, also when an import begun while the vault
\* was unlocked is still in flight.
C22_LockedVaultIsQuiescent ==
    [][(isLocked /\ isLocked' /\ hasVault /\ hasVault') =>
          /\ store' = store
          /\ tasks' \subseteq tasks]_vars

\* C23: every unlock of a store whose checksum differs from the hash
\* recomputed over its {wallets, settings} raises the tamper warning, also
\* when the checksum was removed or emptied out of band.
C23_EveryMismatchWarns ==
    [][\A p \in Passwords :
         (/\ handleUnlock(p)
          /\ StorePresent
          /\ store[1].masterHash = hashPassword(p)
          /\ store[1].checksum #
               generateIntegrityHash([wallets |-> store[1].wallets,
                                      settings |-> store[1].settings]))
         => ret'.warned]_vars

UniqueIds(ws) == \A i, j \in DOMAIN ws : ws[i].id = ws[j].id => i = j

\* C24: no two wallet records of the vault share an id, in the session and in
\* the store, also after importVaultData of a backup that lists the same id
\* more than once.
C24_WalletIdsUnique ==
    /\ UniqueIds(wallets)
    /\ StorePresent => UniqueIds(store[1].wallets)

\* C25: the keys of settings.attributeDefinitions are pairwise distinct after
\* any sequence of additions and removals, also when several attributes are
\* added with the same label.
C25_AttributeKeysUnique ==
    \A i, j \in DOMAIN settings.attributeDefinitions :
        settings.attributeDefinitions[i].key = settings.attributeDefinitions[j].key => i = j

C27_OnlyActivityRestarts ==
    timer.armed => timer.left + timer.idle = TimeoutTicks(settings.autoLockMinutes)

\* the endpoints that have taken the raw transaction
accepted(r) ==
    {r.log[k].url : k \in {k \in DOMAIN r.log :
                              /\ r.log[k].call = "broadcastTransaction"
                              /\ r.log[k].outcome \in {"ok", "lost"}}}

\* C28: when broadcastTransaction reports a failure, no endpoint has taken
\* the raw transaction; when it succeeds, exactly one endpoint has.
C28_BroadcastAtMostOnce ==
    (rpc.op = "broadcastTransaction" /\ rpc.pc = "done" /\ Configured(rpc.key)) =>
        IF rpc.out[1] = "throw"
        THEN accepted(rpc) = {}
        ELSE Cardinality(accepted(rpc)) = 1

\* C29: a network operation called with a key that NETWORKS does not list
\* fails with the unsupported-network error and calls no endpoint.
C29_UnconfiguredKeyRejected ==
    (rpc.op # "idle" /\ ~Configured(rpc.key)) =>
        /\ rpc.pc = "done"
        /\ rpc.log = <<>>
        /\ rpc.out = <<"throw", UnsupportedNetwork(rpc.key)>>

\* C30: a private key shown in the detail pane of the wallet manager is the
\* key of the wallet that is selected, also when the selection changed while
\* the decryption of a reveal was pending.
C30_RevealedKeyOfSelectedWallet ==
    \A w \in Range(wallets) :
        (w.id = manager.selectedWalletId /\ manager.revealedKey # <<>>) =>
            manager.revealedKey = decryptData(w.encryptedPrivateKey, masterPassword)

====
